---------------------------- MODULE Spec2Model ----------------------------
(***************************************************************************)
(* Model of the SoilMonitorDashboard component (src/unnamed/part_000): the *)
(* adaptive Kalman filter, the CUSUM detector, the monitoring loop that    *)
(* React's useEffect arms with setInterval, and the three header buttons.  *)
(*                                                                         *)
(* Numbers.  The program computes in IEEE doubles; TLC has integers only.  *)
(* Every real quantity is held in fixed point, as an integer multiple of   *)
(* 1/Scale, with Scale = 2^12 * 5^2.  With that scale 0.01, 0.1, 0.5,      *)
(* 3.84, 2.5 and 0.01 * 2.5^k (k <= 10) are exact.  Products and quotients *)
(* are computed exactly and truncated toward zero to a multiple of         *)
(* 1/Scale.                                                                *)
(*                                                                         *)
(* React.  A button's onClick runs in a discrete event: React renders and  *)
(* flushes the effects of that render before the handler's task ends.  A   *)
(* timer callback's updates are batched and rendered, and the effect is    *)
(* re-run, well within the 2000 ms before the interval could fire again.   *)
(* Each handler together with the render and the effect run it triggers is *)
(* therefore one action.                                                   *)
(***************************************************************************)
EXTENDS Integers, Sequences, FiniteSets, TLC

VARIABLES
    sensorData,     \* useState([])                         line 8
    currentValues,  \* useState({moisture: 45, ...})        line 9
    alerts,         \* useState([])                         line 17
    isRunning,      \* useState(false)                      line 18
    cumsum,         \* useState({positive: 0, negative: 0}) line 19
    systemStats,    \* useState({...})                      line 20
    kalmanState,    \* useState({...})                      line 27
    intervals,      \* the live setInterval timers, each with the kalmanState
                    \* and cumsum its callback closed over  line 126
    clock,          \* the time source: the number of timer firings so far
    probe           \* the argument and result record of a pure function
                    \* applied on its own (the specifications at the end);
                    \* the component never touches it

vars == <<sensorData, currentValues, alerts, isRunning, cumsum, systemStats,
          kalmanState, intervals, clock, probe>>

---------------------------------------------------------------------------
(* Bounds of the model.                                                    *)

\* Timer firings explored under Spec.
MaxClock == 4

\* Timer firings explored under LongSpec (more than the history capacity).
MaxLongClock == 27

\* Under LongSpec the first CalmTicks readings carry no injected anomaly.
CalmTicks == 2

\* Timer firings explored under SoakSpec (more than the 1000 that take
\* dataAccuracy to 100).
MaxSoakClock == 1002

\* Innovations fed to the detector on its own under CusumSpec.
MaxFeed == 4

\* Measurements passed through the filter on its own under KalmanSpec.
MaxSteps == 4

\* Under SoakSpec a reset is explored during the first SoakResetWindow ticks.
SoakResetWindow == 3

---------------------------------------------------------------------------
(* Fixed-point arithmetic.                                                 *)

Scale == 4096 * 25

\* The real number n/d.
Fx(n, d) == (n * Scale) \div d

Abs(x) == IF x < 0 THEN -x ELSE x

Sign(x) == IF x < 0 THEN -1 ELSE 1

Max(a, b) == IF a >= b THEN a ELSE b

Min(a, b) == IF a <= b THEN a ELSE b

\* One binary digit of the long multiplication below: from h = <<q, r>> with
\* a * n = q * c + r to the pair for a * (2 * n + 1) if odd, a * (2 * n) if not.
MulDivStep(h, a, odd, c) ==
    LET d == 2 * h[2] + (IF odd THEN a % c ELSE 0)
    IN  <<2 * h[1] + (IF odd THEN a \div c ELSE 0) + (d \div c), d % c>>

\* <<q, r>> with a * b = q * c + r and 0 <= r < c, for a, b >= 0 and c > 0,
\* by binary long multiplication: no intermediate value exceeds 3 * c or q.
\* (The singleton set binds the recursive result, so it is computed once.)
RECURSIVE MulDivQR(_, _, _)
MulDivQR(a, b, c) ==
    IF b = 0 THEN <<0, 0>>
    ELSE CHOOSE qr \in {MulDivStep(h, a, b % 2 = 1, c) :
                          h \in {MulDivQR(a, b \div 2, c)}} : TRUE

\* x * y and x / y on fixed-point numbers, truncated toward zero.  (The
\* singleton sets bind the operands, so each is computed once.)
FxMul(x, y) ==
    CHOOSE z \in {Sign(u) * Sign(v) * MulDivQR(Abs(u), Abs(v), Scale)[1] :
                    u \in {x}, v \in {y}} : TRUE

FxDiv(x, y) ==
    CHOOSE z \in {Sign(u) * Sign(v) * MulDivQR(Abs(u), Scale, Abs(v))[1] :
                    u \in {x}, v \in {y}} : TRUE

\* Math.round(x * 10) / 10
Round10(x) == ((x * 10 + Scale \div 2) \div Scale) * (Scale \div 10)

---------------------------------------------------------------------------
(* Initial values of the component state.                                  *)

InitCumsum == [positive |-> 0, negative |-> 0]

InitStats == [totalReadings |-> 0, anomaliesDetected |-> 0, dataAccuracy |-> 0]

InitKalman ==
    [estimate |-> Fx(45, 1),
     errorCovariance |-> Fx(1, 1),
     processNoise |-> Fx(1, 100),
     measurementNoise |-> Fx(1, 2),
     innovation |-> 0]

---------------------------------------------------------------------------
(* Pure functions of the component.                                        *)

\* generateSensorReading(baseValue, variance, anomaly): noise stands for
\* (Math.random() - 0.5) * variance and high for Math.random() > 0.5.
generateSensorReading(baseValue, noise, anomaly, high) ==
    LET anomalyOffset == IF anomaly THEN (IF high THEN Fx(20, 1) ELSE -Fx(20, 1))
                         ELSE 0
    IN  Max(0, baseValue + noise + anomalyOffset)

chiSquareThreshold == Fx(384, 100)

\* A decay back toward the nominal level instead of the reset to it.
adaptiveProcessNoise_Decay(lambda, processNoise) ==
    IF lambda > chiSquareThreshold
    THEN FxMul(processNoise, Fx(25, 10))
    ELSE FxDiv(processNoise, Fx(25, 10))

\* The previous level kept where the code resets to 0.01.
adaptiveProcessNoise_Sticky(lambda, processNoise) ==
    IF lambda > chiSquareThreshold
    THEN FxMul(processNoise, Fx(25, 10))
    ELSE processNoise

\* lambda > chiSquareThreshold ? state.processNoise * 2.5 : 0.01
adaptiveProcessNoise(lambda, processNoise) ==
    IF lambda > chiSquareThreshold
    THEN FxMul(processNoise, Fx(25, 10))
    ELSE Fx(1, 100)

\* The update step with the prior covariance in place of the predicted one.
kalmanSteps_PriorCov(measurement, state) ==
    LET predictedEstimate == state.estimate
        predictedErrorCov == state.errorCovariance + state.processNoise
        innovation == measurement - predictedEstimate
        innovationCov == predictedErrorCov + state.measurementNoise
        lambda == FxDiv(FxMul(innovation, innovation), innovationCov)
        kalmanGain == FxDiv(predictedErrorCov, innovationCov)
        newEstimate == predictedEstimate + FxMul(kalmanGain, innovation)
        newErrorCov == FxMul(Scale - kalmanGain, state.errorCovariance)
    IN  [predictedEstimate |-> predictedEstimate,
         predictedErrorCov |-> predictedErrorCov,
         innovation |-> innovation,
         innovationCov |-> innovationCov,
         lambda |-> lambda,
         adaptiveProcessNoise |-> adaptiveProcessNoise(lambda, state.processNoise),
         kalmanGain |-> kalmanGain,
         newEstimate |-> newEstimate,
         newErrorCov |-> newErrorCov]

\* The constants computed in the body of kalmanFilter, in its order.
kalmanSteps(measurement, state) ==
    LET predictedEstimate == state.estimate
        predictedErrorCov == state.errorCovariance + state.processNoise
        innovation == measurement - predictedEstimate
        innovationCov == predictedErrorCov + state.measurementNoise
        lambda == FxDiv(FxMul(innovation, innovation), innovationCov)
        kalmanGain == FxDiv(predictedErrorCov, innovationCov)
        newEstimate == predictedEstimate + FxMul(kalmanGain, innovation)
        newErrorCov == FxMul(Scale - kalmanGain, predictedErrorCov)
    IN  [predictedEstimate |-> predictedEstimate,
         predictedErrorCov |-> predictedErrorCov,
         innovation |-> innovation,
         innovationCov |-> innovationCov,
         lambda |-> lambda,
         adaptiveProcessNoise |-> adaptiveProcessNoise(lambda, state.processNoise),
         kalmanGain |-> kalmanGain,
         newEstimate |-> newEstimate,
         newErrorCov |-> newErrorCov]

\* The object kalmanFilter returns.
kalmanFilter(measurement, state) ==
    CHOOSE result \in
        {[estimate |-> steps.newEstimate,
          errorCovariance |-> steps.newErrorCov,
          processNoise |-> steps.adaptiveProcessNoise,
          measurementNoise |-> state.measurementNoise,
          innovation |-> steps.innovation] :
            steps \in {kalmanSteps(measurement, state)}} : TRUE

delta == Fx(1, 2)

threshold == Fx(5, 1)

\* The verdict with >= threshold and <= -threshold.
detectAnomaly_AtThreshold(innovation, currentCumsum) ==
    LET sPlus == Max(0, currentCumsum.positive + innovation - delta)
        sMinus == Min(0, currentCumsum.negative + innovation + delta)
    IN  [cumsum |-> [positive |-> sPlus, negative |-> sMinus],
         isAnomaly |-> (sPlus >= threshold \/ sMinus <= -threshold),
         type |-> IF sPlus >= threshold THEN "high"
                  ELSE IF sMinus <= -threshold THEN "low" ELSE "normal"]

\* The verdict with the low direction tested first.
detectAnomaly_LowFirst(innovation, currentCumsum) ==
    LET sPlus == Max(0, currentCumsum.positive + innovation - delta)
        sMinus == Min(0, currentCumsum.negative + innovation + delta)
    IN  [cumsum |-> [positive |-> sPlus, negative |-> sMinus],
         isAnomaly |-> (sPlus > threshold \/ sMinus < -threshold),
         type |-> IF sMinus < -threshold THEN "low"
                  ELSE IF sPlus > threshold THEN "high" ELSE "normal"]

\* The two sums without Math.max(0, ...) and Math.min(0, ...).
detectAnomaly_NoClamp(innovation, currentCumsum) ==
    LET sPlus == currentCumsum.positive + innovation - delta
        sMinus == currentCumsum.negative + innovation + delta
    IN  [cumsum |-> [positive |-> sPlus, negative |-> sMinus],
         isAnomaly |-> (sPlus > threshold \/ sMinus < -threshold),
         type |-> IF sPlus > threshold THEN "high"
                  ELSE IF sMinus < -threshold THEN "low" ELSE "normal"]

detectAnomaly(innovation, currentCumsum) ==
    LET sPlus == Max(0, currentCumsum.positive + innovation - delta)
        sMinus == Min(0, currentCumsum.negative + innovation + delta)
    IN  [cumsum |-> [positive |-> sPlus, negative |-> sMinus],
         isAnomaly |-> (sPlus > threshold \/ sMinus < -threshold),
         type |-> IF sPlus > threshold THEN "high"
                  ELSE IF sMinus < -threshold THEN "low" ELSE "normal"]


---------------------------------------------------------------------------
(* The monitoring loop's bookkeeping.                                      *)

\* The object literal ranges of getParameterStatus: its own properties.
ranges ==
    [moisture   |-> [optimal |-> <<Fx(40, 1), Fx(50, 1)>>, warning |-> <<Fx(35, 1), Fx(55, 1)>>],
     ph         |-> [optimal |-> <<Fx(65, 10), Fx(7, 1)>>, warning |-> <<Fx(6, 1), Fx(75, 10)>>],
     ec         |-> [optimal |-> <<Fx(1, 1), Fx(15, 10)>>, warning |-> <<Fx(8, 10), Fx(18, 10)>>],
     nitrogen   |-> [optimal |-> <<Fx(30, 1), Fx(40, 1)>>, warning |-> <<Fx(25, 1), Fx(45, 1)>>],
     phosphorus |-> [optimal |-> <<Fx(15, 1), Fx(25, 1)>>, warning |-> <<Fx(10, 1), Fx(30, 1)>>],
     potassium  |-> [optimal |-> <<Fx(20, 1), Fx(30, 1)>>, warning |-> <<Fx(15, 1), Fx(35, 1)>>]]

\* ranges is an object literal, so ranges[parameter] also finds the
\* properties it inherits from Object.prototype.  Each of them is a function
\* or an object: truthy, and without a property named optimal.
ObjectPrototypeKeys ==
    {"constructor", "toString", "toLocaleString", "valueOf", "hasOwnProperty",
     "isPrototypeOf", "propertyIsEnumerable", "__proto__"}

\* The result of getParameterStatus, or "TypeError" where it throws:
\* range.optimal[0] with range.optimal undefined.
getParameterStatus(value, parameter) ==
    IF parameter \in DOMAIN ranges
    THEN LET range == ranges[parameter]
         IN  IF value >= range.optimal[1] /\ value <= range.optimal[2] THEN "optimal"
             ELSE IF value >= range.warning[1] /\ value <= range.warning[2] THEN "warning"
             ELSE "critical"
    ELSE IF parameter \in ObjectPrototypeKeys
    THEN "TypeError"
    ELSE "unknown"

\* Array.prototype.slice(-n): the last n elements.
SliceLast(s, n) == IF Len(s) <= n THEN s ELSE SubSeq(s, Len(s) - n + 1, Len(s))

\* Array.prototype.slice(0, n): the first n elements.
SliceFirst(s, n) == IF Len(s) <= n THEN s ELSE SubSeq(s, 1, n)

historyCapacity == 25

alertCapacity == 8

\* slice(0, 25) in place of slice(-25): the oldest readings are kept.
storeReading_KeepOldest(prev, reading) ==
    SliceFirst(Append(prev, reading), historyCapacity)

\* setSensorData(prev => [...prev, reading].slice(-25))
storeReading(prev, reading) == SliceLast(Append(prev, reading), historyCapacity)

\* The two severities exchanged.
alertMsg_Swapped(type, timestamp, value) ==
    [id |-> timestamp,
     type |-> IF type = "high" THEN "critical" ELSE "warning",
     message |-> IF type = "high"
                 THEN "High moisture detected - Check irrigation system"
                 ELSE "Low moisture detected - Consider irrigation",
     timestamp |-> timestamp,
     parameter |-> "Soil Moisture",
     value |-> value]

\* The alertMsg object built for an anomalous tick.
alertMsg(type, timestamp, value) ==
    [id |-> timestamp,
     type |-> IF type = "high" THEN "warning" ELSE "critical",
     message |-> IF type = "high"
                 THEN "High moisture detected - Check irrigation system"
                 ELSE "Low moisture detected - Consider irrigation",
     timestamp |-> timestamp,
     parameter |-> "Soil Moisture",
     value |-> value]

\* The prepend without the slice(0, 8).
pushAlert_Unbounded(prev, msg) == <<msg>> \o prev

\* setAlerts(prev => [alertMsg, ...prev].slice(0, 8))
pushAlert(prev, msg) == SliceFirst(<<msg>> \o prev, alertCapacity)

\* The second updater without Math.min(100, ...).
updateStats_NoCap(prev, isAnomaly) ==
    LET counted == IF isAnomaly
                   THEN [prev EXCEPT !.anomaliesDetected = @ + 1]
                   ELSE prev
    IN  [counted EXCEPT !.totalReadings = @ + 1,
                        !.dataAccuracy = @ + Fx(1, 10)]

\* The second updater written from the value the first one started from.
updateStats_StalePrev(prev, isAnomaly) ==
    [prev EXCEPT !.totalReadings = @ + 1,
                 !.dataAccuracy = Min(Fx(100, 1), @ + Fx(1, 10))]

\* The two setSystemStats updaters of a tick, applied in order.
updateStats(prev, isAnomaly) ==
    LET counted == IF isAnomaly
                   THEN [prev EXCEPT !.anomaliesDetected = @ + 1]
                   ELSE prev
    IN  [counted EXCEPT !.totalReadings = @ + 1,
                        !.dataAccuracy = Min(Fx(100, 1), @ + Fx(1, 10))]

---------------------------------------------------------------------------
(* The effect of lines 123-193.                                            *)

\* The dependency array without cumsum.
EffectDeps_NoCumsum == {"isRunning", "kalmanState"}

\* The dependency array of the effect.
EffectDeps == {"isRunning", "kalmanState", "cumsum"}

\* An effect that returns no cleanup: the old interval stays live.
clearInterval_Leak(live) == live

\* The effect's cleanup: clearInterval(interval).
clearInterval(live) == {}

\* A render after the state hooks in `changed` were set.  When a dependency
\* changed, React runs the previous cleanup and then the effect, which arms
\* a new interval whose callback closes over this render's kalmanState and
\* cumsum, unless isRunning is false.
MonitoringEffect(live, changed, running, kalman, sums) ==
    IF changed \cap EffectDeps = {}
    THEN live
    ELSE clearInterval(live) \cup
         (IF running THEN {[kalmanState |-> kalman, cumsum |-> sums]} ELSE {})

---------------------------------------------------------------------------
(* Actions.                                                                *)

Init ==
    /\ sensorData = <<>>
    /\ currentValues = [moisture |-> Fx(45, 1)]
    /\ alerts = <<>>
    /\ isRunning = FALSE
    /\ cumsum = InitCumsum
    /\ systemStats = InitStats
    /\ kalmanState = InitKalman
    /\ intervals = {}
    /\ clock = 0
    /\ probe = [fn |-> "none"]

\* One firing of the interval `timer`: the callback of lines 126-190, the
\* render of its batched updates and the effect run that follows.  The
\* auxiliary channels (ph, ec, nitrogen, phosphorus, potassium) are fresh
\* random draws that nothing reads back; they are left out.
Tick(timer, noise, hasAnomaly, high) ==
    /\ timer \in intervals
    /\ \E rawMoisture \in {generateSensorReading(Fx(45, 1), noise, hasAnomaly, high)} :
       \E newKalmanState \in {kalmanFilter(rawMoisture, timer.kalmanState)} :
       \E anomalyResult \in {detectAnomaly(newKalmanState.innovation, timer.cumsum)} :
         LET timestamp == clock + 1
             newValues == [moisture |-> Round10(newKalmanState.estimate)]
             reading == [time |-> timestamp,
                         raw |-> Round10(rawMoisture),
                         filtered |-> newValues.moisture]
         IN  /\ clock' = timestamp
             /\ kalmanState' = newKalmanState
             /\ cumsum' = anomalyResult.cumsum
             /\ currentValues' = newValues
             /\ sensorData' = storeReading(sensorData, reading)
             /\ alerts' = IF anomalyResult.isAnomaly
                          THEN pushAlert(alerts, alertMsg(anomalyResult.type, timestamp,
                                                          newValues.moisture))
                          ELSE alerts
             /\ systemStats' = updateStats(systemStats, anomalyResult.isAnomaly)
             /\ UNCHANGED <<isRunning, probe>>
             /\ intervals' = MonitoringEffect(intervals,
                                 {"kalmanState", "cumsum", "currentValues",
                                  "sensorData", "alerts", "systemStats"},
                                 isRunning, kalmanState', cumsum')

\* A start/stop button that also clears the detector.
ToggleMonitoring_Fresh ==
    /\ isRunning' = ~isRunning
    /\ cumsum' = InitCumsum
    /\ UNCHANGED <<sensorData, currentValues, alerts, systemStats,
                   kalmanState, clock, probe>>
    /\ intervals' = MonitoringEffect(intervals, {"isRunning", "cumsum"}, isRunning',
                                     kalmanState, cumsum')

\* onClick={() => setIsRunning(!isRunning)}
ToggleMonitoring ==
    /\ isRunning' = ~isRunning
    /\ UNCHANGED <<sensorData, currentValues, alerts, cumsum, systemStats,
                   kalmanState, clock, probe>>
    /\ intervals' = MonitoringEffect(intervals, {"isRunning"}, isRunning',
                                     kalmanState, cumsum)

Start == ~isRunning /\ ToggleMonitoring

Stop == isRunning /\ ToggleMonitoring

\* A clear-alerts that also forgets how many anomalies were counted.
clearAlerts_ResetsCount ==
    /\ alerts' = <<>>
    /\ systemStats' = [systemStats EXCEPT !.anomaliesDetected = 0]
    /\ UNCHANGED <<sensorData, currentValues, isRunning, cumsum,
                   kalmanState, clock, probe>>
    /\ intervals' = MonitoringEffect(intervals, {"alerts", "systemStats"}, isRunning,
                                     kalmanState, cumsum)

\* setAlerts([])
clearAlerts ==
    /\ alerts' = <<>>
    /\ UNCHANGED <<sensorData, currentValues, isRunning, cumsum, systemStats,
                   kalmanState, clock, probe>>
    /\ intervals' = MonitoringEffect(intervals, {"alerts"}, isRunning,
                                     kalmanState, cumsum)

\* A reset that drops the oldest reading and the oldest alert only.
resetSystem_DropOldest ==
    /\ sensorData' = IF sensorData = <<>> THEN <<>> ELSE Tail(sensorData)
    /\ alerts' = SliceFirst(alerts, Len(alerts) - 1)
    /\ cumsum' = InitCumsum
    /\ systemStats' = InitStats
    /\ UNCHANGED <<currentValues, isRunning, kalmanState, clock, probe>>
    /\ intervals' = MonitoringEffect(intervals,
                        {"sensorData", "alerts", "cumsum", "systemStats"},
                        isRunning, kalmanState, cumsum')

\* A reset that also stops monitoring.
resetSystem_Stops ==
    /\ sensorData' = <<>>
    /\ alerts' = <<>>
    /\ cumsum' = InitCumsum
    /\ systemStats' = InitStats
    /\ isRunning' = FALSE
    /\ UNCHANGED <<currentValues, kalmanState, clock, probe>>
    /\ intervals' = MonitoringEffect(intervals,
                        {"sensorData", "alerts", "cumsum", "systemStats", "isRunning"},
                        isRunning', kalmanState, cumsum')

resetSystem ==
    /\ sensorData' = <<>>
    /\ alerts' = <<>>
    /\ cumsum' = InitCumsum
    /\ systemStats' = InitStats
    /\ UNCHANGED <<currentValues, isRunning, kalmanState, clock, probe>>
    /\ intervals' = MonitoringEffect(intervals,
                        {"sensorData", "alerts", "cumsum", "systemStats"},
                        isRunning, kalmanState, cumsum')

\* (Math.random() - 0.5) * 5 lies in [-2.5, 2.5).
Noises == {-Fx(2, 1), Fx(2, 1)}

\* A timer firing with any reading the generator can produce.
TimerFires ==
    /\ clock < MaxClock
    /\ \E timer \in intervals, noise \in Noises, hasAnomaly \in BOOLEAN,
          high \in BOOLEAN :
            Tick(timer, noise, hasAnomaly, high)

Next == TimerFires \/ Start \/ Stop \/ clearAlerts \/ resetSystem

Spec == Init /\ [][Next]_vars

\* A long run: calm readings first, then a sustained high-moisture fault.
LongTimerFires ==
    /\ clock < MaxLongClock
    /\ \E timer \in intervals :
            Tick(timer, 0, clock >= CalmTicks, TRUE)

LongNext == LongTimerFires \/ Start \/ Stop \/ clearAlerts \/ resetSystem

LongSpec == Init /\ [][LongNext]_vars

\* A soak run: the long run's readings, for more than 1000 ticks, with
\* resets during the first ticks only.
SoakTimerFires ==
    /\ clock < MaxSoakClock
    /\ \E timer \in intervals :
            Tick(timer, 0, clock >= CalmTicks, TRUE)

SoakReset == clock <= SoakResetWindow /\ resetSystem

SoakNext == SoakTimerFires \/ Start \/ Stop \/ clearAlerts \/ SoakReset

SoakSpec == Init /\ [][SoakNext]_vars

\* The component state at rest, while a pure function is applied on its own.
AtRest ==
    /\ sensorData = <<>>
    /\ currentValues = [moisture |-> Fx(45, 1)]
    /\ alerts = <<>>
    /\ isRunning = FALSE
    /\ cumsum = InitCumsum
    /\ systemStats = InitStats
    /\ kalmanState = InitKalman
    /\ intervals = {}
    /\ clock = 0

StaysAtRest ==
    UNCHANGED <<sensorData, currentValues, alerts, isRunning, cumsum, systemStats,
                kalmanState, intervals, clock>>

\* detectAnomaly on its own: a sequence of innovations fed to a detector
\* that starts from the fresh sums {0, 0}.  The probe keeps the first
\* innovation, whether all of them so far were equal to it, their number,
\* the sums, the last verdict and the number of the first anomalous call.
Innovations ==
    {-Fx(10, 1), -Fx(6, 1), -Fx(3, 1), -Fx(2, 1), -Fx(6, 10),
     Fx(6, 10), Fx(2, 1), Fx(3, 1), Fx(6, 1), Fx(25, 1)}

CusumInit ==
    /\ AtRest
    /\ probe = [fn |-> "detectAnomaly", first |-> 0, constant |-> TRUE, k |-> 0,
                cumsum |-> InitCumsum, isAnomaly |-> FALSE, type |-> "normal",
                firstAnomaly |-> 0]

CusumFeed(innovation) ==
    /\ probe.k < MaxFeed
    /\ \E result \in {detectAnomaly(innovation, probe.cumsum)} :
          probe' = [fn |-> "detectAnomaly",
                    first |-> IF probe.k = 0 THEN innovation ELSE probe.first,
                    constant |-> probe.k = 0 \/
                                    (probe.constant /\ innovation = probe.first),
                    k |-> probe.k + 1,
                    cumsum |-> result.cumsum,
                    isAnomaly |-> result.isAnomaly,
                    type |-> result.type,
                    firstAnomaly |-> IF probe.firstAnomaly = 0 /\ result.isAnomaly
                                     THEN probe.k + 1 ELSE probe.firstAnomaly]
    /\ StaysAtRest

CusumNext == \E innovation \in Innovations : CusumFeed(innovation)

CusumSpec == CusumInit /\ [][CusumNext]_vars

\* kalmanFilter and detectAnomaly on their own, chained as the interval
\* callback chains them, from the initial filter state and the fresh sums:
\* a sequence of measurements, each filtered from the state the previous
\* call returned.  The probe keeps the number of calls, the last
\* measurement, the state it was filtered from, the constants of that call,
\* the state it returned and the detector's result for its innovation.
Measurements == {Fx(20, 1), Fx(43, 1), Fx(45, 1), Fx(47, 1), Fx(62, 1), Fx(70, 1)}

KalmanInit ==
    /\ AtRest
    /\ probe = [fn |-> "kalmanFilter", k |-> 0, state |-> InitKalman,
                cumsum |-> InitCumsum]

KalmanFeed(measurement) ==
    /\ probe.k < MaxSteps
    /\ \E steps \in {kalmanSteps(measurement, probe.state)} :
       \E newKalmanState \in {kalmanFilter(measurement, probe.state)} :
       \E anomalyResult \in {detectAnomaly(newKalmanState.innovation, probe.cumsum)} :
          probe' = [fn |-> "kalmanFilter",
                    k |-> probe.k + 1,
                    measurement |-> measurement,
                    prior |-> probe.state,
                    steps |-> steps,
                    state |-> newKalmanState,
                    cumsum |-> anomalyResult.cumsum,
                    isAnomaly |-> anomalyResult.isAnomaly,
                    type |-> anomalyResult.type]
    /\ StaysAtRest

KalmanNext == \E measurement \in Measurements : KalmanFeed(measurement)

KalmanSpec == KalmanInit /\ [][KalmanNext]_vars

\* getParameterStatus on its own.  The values are every bound of every band,
\* one tenth below and above each, and 10 and 36; the keys are the six of
\* ranges and five others.
BandBounds ==
    UNION {{ranges[key].optimal[1], ranges[key].optimal[2],
            ranges[key].warning[1], ranges[key].warning[2]} : key \in DOMAIN ranges}

Values ==
    UNION {{bound - Fx(1, 10), bound, bound + Fx(1, 10)} : bound \in BandBounds}
        \cup {Fx(10, 1), Fx(36, 1)}

Keys ==
    DOMAIN ranges \cup {"unknown_param", "temperature", "", "toString", "constructor"}

ClassifyInit ==
    /\ AtRest
    /\ probe = [fn |-> "getParameterStatus", calls |-> 0]

Classify(value, parameter) ==
    /\ probe' = [fn |-> "getParameterStatus",
                 calls |-> 1,
                 value |-> value,
                 parameter |-> parameter,
                 status |-> getParameterStatus(value, parameter)]
    /\ StaysAtRest

ClassifyNext == \E value \in Values : \E parameter \in Keys : Classify(value, parameter)

ClassifySpec == ClassifyInit /\ [][ClassifyNext]_vars

\* The interval fires whenever it is live.
FairSpec == Spec /\ WF_vars(TimerFires)

---------------------------------------------------------------------------
(* Properties.                                                             *)

\* A step in which the interval's callback ran: nothing else moves the clock.
TickStep == clock' = clock + 1

\* C1: after reset, from any reachable state, the whole engine state equals
\* the initial defaults: empty history, empty alert list, the initial
\* KalmanState, the initial CumSumState and all three counters 0.
C1_ResetRestoresDefaults ==
    [][resetSystem =>
          /\ sensorData' = <<>>
          /\ alerts' = <<>>
          /\ kalmanState' = InitKalman
          /\ cumsum' = InitCumsum
          /\ systemStats' = InitStats]_vars

\* 0.01 * 2.5^k, computed as the filter computes it.
RECURSIVE NoiseLevel(_)
NoiseLevel(k) == IF k = 0 THEN Fx(1, 100) ELSE FxMul(NoiseLevel(k - 1), Fx(25, 10))

\* The levels a run of at most MaxClock ticks can reach.
NoiseLevels == [k \in 0..MaxClock |-> NoiseLevel(k)]

\* C2 (as claimed): in every reachable state processNoise is 0.01 or 0.025.
C2_TwoLevels == kalmanState.processNoise \in {NoiseLevels[0], NoiseLevels[1]}

\* C2 (amended): in every reachable state processNoise is 0.01 * 2.5^k for
\* some k >= 0 no larger than the number of ticks so far, so that two or
\* more consecutive ticks with lambda > 3.84 drive it above 0.025.
C2_GeometricLevels == \E k \in 0..clock : kalmanState.processNoise = NoiseLevels[k]

\* Two consecutive ticks with lambda > 3.84 have run: processNoise = 0.0625.
C2_Witness ==
    kalmanState.processNoise = NoiseLevels[2] /\ NoiseLevels[2] = Fx(625, 10000)

\* C3: on every tick an alert is created iff the CUSUM verdict is anomalous;
\* it is prepended with severity warning for direction high and critical
\* for direction low, and anomaliesDetected grows by exactly 1; on a tick
\* without anomaly the alert list and anomaliesDetected are unchanged.
C3_AlertIffAnomaly ==
    [][TickStep =>
          LET high == cumsum'.positive > threshold
              low == cumsum'.negative < -threshold
          IN  IF high \/ low
              THEN /\ alerts' # <<>>
                   /\ Head(alerts').id = clock'
                   /\ Head(alerts').type = (IF high THEN "warning" ELSE "critical")
                   /\ Tail(alerts') = SliceFirst(alerts, alertCapacity - 1)
                   /\ systemStats'.anomaliesDetected =
                          systemStats.anomaliesDetected + 1
              ELSE /\ alerts' = alerts
                   /\ systemStats'.anomaliesDetected = systemStats.anomaliesDetected]_vars

\* Ticks of all three kinds have run: a high anomaly, a low anomaly and a
\* tick without anomaly.
C3_Witness ==
    /\ \E i, j \in 1..Len(alerts) :
          alerts[i].type = "warning" /\ alerts[j].type = "critical"
    /\ systemStats.anomaliesDetected < systemStats.totalReadings

\* C6: in every reachable state the CUSUM accumulators satisfy
\* positive >= 0 and negative <= 0.
C6_CusumSigns == cumsum.positive >= 0 /\ cumsum.negative <= 0

\* A negative innovation has driven the positive sum onto its clamp.
C6_Witness ==
    /\ kalmanState.innovation < -delta
    /\ cumsum.positive = 0
    /\ cumsum.negative < 0
    /\ systemStats.totalReadings > 1

\* C4: the history never holds more than 25 entries; once more than 25 ticks
\* have run without a reset its length is exactly 25, and it holds the most
\* recent readings in chronological order, the oldest evicted first.
C4_HistoryWindow ==
    /\ Len(sensorData) <= historyCapacity
    /\ Len(sensorData) = Min(historyCapacity, systemStats.totalReadings)
    /\ systemStats.totalReadings > historyCapacity =>
          Len(sensorData) = historyCapacity
    /\ \A i \in 1..Len(sensorData) :
          sensorData[i].time = clock - Len(sensorData) + i

\* More than 25 ticks have run since the last reset: the first readings are gone.
C4_Witness ==
    /\ systemStats.totalReadings > historyCapacity + 1
    /\ Len(sensorData) = historyCapacity
    /\ sensorData[1].time = clock - historyCapacity + 1
    /\ sensorData[1].time > 2

\* The alert list is bounded and ordered newest first.
AlertsBoundedNewestFirst ==
    /\ Len(alerts) <= alertCapacity
    /\ \A i \in 1..Len(alerts) : \A j \in 1..Len(alerts) :
          i < j => alerts[i].id > alerts[j].id

\* C5 (as claimed): the alert list never holds more than 8 entries, is
\* ordered newest first, and after more than 8 anomalies its length is
\* always exactly 8.
C5_AlwaysFull ==
    /\ AlertsBoundedNewestFirst
    /\ systemStats.anomaliesDetected > alertCapacity => Len(alerts) = alertCapacity

\* C5 (amended): the alert list never holds more than 8 entries and is
\* ordered newest first; every anomalous tick puts its alert at the head
\* and keeps the 7 newest of the others, so the list grows by one up to 8
\* and then stays at 8 with the oldest evicted; the list gets shorter only
\* by clear-alerts or reset, which empty it.
C5_BoundedNewestFirst ==
    /\ []AlertsBoundedNewestFirst
    /\ [][/\ systemStats'.anomaliesDetected > systemStats.anomaliesDetected =>
                /\ Len(alerts') = Min(alertCapacity, Len(alerts) + 1)
                /\ Head(alerts').id = clock'
                /\ Tail(alerts') = SliceFirst(alerts, alertCapacity - 1)
          /\ Len(alerts') < Len(alerts) =>
                alerts' = <<>> /\ (clearAlerts \/ resetSystem)]_vars

\* More than 8 anomalies since the list was last emptied: 8 alerts are held
\* and the first ones are gone.
C5_Witness ==
    /\ systemStats.anomaliesDetected > alertCapacity + 1
    /\ Len(alerts) = alertCapacity
    /\ alerts[alertCapacity].id > CalmTicks + 2
    /\ alerts[1].id = clock

\* C7: whenever an interval is live, the kalmanState and the cumsum its
\* callback closed over are the committed ones, so every tick computes from
\* the state the most recent tick or reset committed; at most one interval
\* is live, so no two ticks overlap.
C7_NoStaleSnapshot ==
    /\ Cardinality(intervals) <= 1
    /\ \A timer \in intervals :
          timer.kalmanState = kalmanState /\ timer.cumsum = cumsum

\* Monitoring runs, and a reset has followed a tick that moved both states.
C7_Witness ==
    /\ isRunning
    /\ intervals # {}
    /\ clock > 0
    /\ systemStats.totalReadings = 0
    /\ kalmanState # InitKalman
    /\ kalmanState.innovation > delta

\* C8: a tick executes only while Running: while Idle no interval is live,
\* and the clock, KalmanState, totalReadings and the history's newest entry
\* change only in the Running state.
C8_TicksOnlyWhileRunning ==
    /\ [](~isRunning => intervals = {})
    /\ [][(\/ TickStep
           \/ kalmanState' # kalmanState
           \/ systemStats'.totalReadings > systemStats.totalReadings
           \/ Len(sensorData') > Len(sensorData)) => isRunning /\ isRunning']_vars

\* Monitoring was stopped after ticks had run.
C8_Witness == ~isRunning /\ systemStats.totalReadings > 1 /\ intervals = {}

\* C9: the engine is Idle (initially) or Running; only the start/stop button
\* changes that, Idle to Running and Running to Idle; reset and clear-alerts
\* are enabled in both states, and reset, clear-alerts and tick leave the
\* Running/Idle state unchanged.
C9_TwoStates ==
    /\ [](isRunning \in BOOLEAN)
    /\ [](ENABLED resetSystem /\ ENABLED clearAlerts /\ ENABLED ToggleMonitoring)
    /\ [][/\ isRunning' # isRunning => ToggleMonitoring
          /\ Start => ~isRunning /\ isRunning'
          /\ Stop => isRunning /\ ~isRunning'
          /\ (resetSystem \/ clearAlerts \/ TickStep) => isRunning' = isRunning]_vars

\* A reset was done while Running, after ticks, and monitoring still runs.
C9_Witness ==
    isRunning /\ clock > 1 /\ systemStats.totalReadings = 0 /\ sensorData = <<>>

\* The liveness half of C10: after a reset while Running a further tick
\* occurs unless monitoring is stopped (or the explored clock range ends).
ResetKeepsTicking ==
    [](isRunning /\ systemStats.totalReadings = 0 /\ clock < MaxClock
         => <>(~isRunning \/ systemStats.totalReadings > 0))

\* C10: reset does not stop the scheduler: if Running at the reset and not
\* stopped afterwards, a further tick eventually occurs without a new start,
\* and that tick runs from the reset state.
C10_TickRunsFromResetState ==
    /\ ResetKeepsTicking
    /\ [][(TickStep /\ clock > 0 /\ systemStats.totalReadings = 0) =>
             \A timer \in intervals :
                timer.kalmanState = InitKalman /\ timer.cumsum = InitCumsum]_vars

\* The engine state a stop or a start must keep.
EngineState == <<kalmanState, cumsum, sensorData, alerts, systemStats>>

\* C11: stop and start discard nothing: they leave KalmanState, CumSumState,
\* history, alert list and the three counters as the last completed tick
\* left them, and the interval armed by a start computes its first tick
\* from exactly that state.
C11_StopStartKeepState ==
    [][ToggleMonitoring =>
          /\ EngineState' = EngineState
          /\ isRunning' =>
                /\ intervals' # {}
                /\ \A timer \in intervals' :
                      timer.kalmanState = kalmanState /\ timer.cumsum = cumsum]_vars

\* Monitoring is stopped with a filter, a detector, a history and an alert
\* list that ticks have moved.
C11_Witness ==
    /\ ~isRunning
    /\ kalmanState # InitKalman
    /\ cumsum # InitCumsum
    /\ alerts # <<>>
    /\ Len(sensorData) > 1

\* C12: reset is idempotent: in the state a reset leaves, a second reset
\* changes nothing (history, alerts, KalmanState, CumSumState, counters,
\* Running/Idle and the armed interval are all as the first reset left them).
C12_ResetIdempotent == [][resetSystem => ~(ENABLED <<resetSystem>>_vars)']_vars

\* A reset has cleared a state that ticks had filled, while Running.
C12_Witness ==
    /\ isRunning
    /\ clock > 2
    /\ sensorData = <<>>
    /\ alerts = <<>>
    /\ systemStats = InitStats
    /\ cumsum = InitCumsum
    /\ kalmanState.processNoise > Fx(1, 100)

\* C13: every tick, anomalous or not, increases totalReadings by exactly 1
\* and moves dataAccuracy up by the fixed step 0.1, saturating at 100, so
\* that it never decreases and never exceeds 100; apart from reset, no step
\* decreases totalReadings, anomaliesDetected or dataAccuracy.
C13_CountersMonotone ==
    /\ [](systemStats.dataAccuracy <= Fx(100, 1))
    /\ [][/\ TickStep =>
                /\ systemStats'.totalReadings = systemStats.totalReadings + 1
                /\ systemStats'.dataAccuracy =
                      Min(Fx(100, 1), systemStats.dataAccuracy + Fx(1, 10))
                /\ systemStats'.dataAccuracy >= systemStats.dataAccuracy
          /\ ~resetSystem =>
                /\ systemStats'.totalReadings >= systemStats.totalReadings
                /\ systemStats'.anomaliesDetected >= systemStats.anomaliesDetected
                /\ systemStats'.dataAccuracy >= systemStats.dataAccuracy]_vars

\* dataAccuracy has reached 100 and a further tick has left it there, after
\* ticks with and ticks without an anomaly.
C13_Witness ==
    /\ systemStats.totalReadings > 1001
    /\ systemStats.dataAccuracy = Fx(100, 1)
    /\ systemStats.anomaliesDetected > 0
    /\ systemStats.anomaliesDetected < systemStats.totalReadings - CalmTicks

\* The first of the calls 1..k at which j times the step exceeds the
\* threshold, 0 if there is none.
FirstExceeding(step, k) ==
    IF \E j \in 1..k : j * step > threshold
    THEN CHOOSE j \in 1..k :
            j * step > threshold /\ \A i \in 1..(j - 1) : i * step <= threshold
    ELSE 0

\* C14: from the fresh sums {0, 0}, a constant innovation v > 0.5 fed k
\* times makes positive = k * (v - 0.5) while negative stays 0, and the
\* verdict is an anomaly, with direction high, on the first call at which
\* positive exceeds 5 and not before.  Symmetrically a constant v < -0.5
\* makes negative = -k * (|v| - 0.5) with positive staying 0, and the first
\* anomaly has direction low.
C14_ConstantInnovation ==
    (probe.fn = "detectAnomaly" /\ probe.k >= 1 /\ probe.constant) =>
        LET v == probe.first
            k == probe.k
        IN  /\ v > delta =>
                  /\ probe.cumsum.positive = k * (v - delta)
                  /\ probe.cumsum.negative = 0
                  /\ probe.isAnomaly <=> probe.cumsum.positive > threshold
                  /\ probe.type = IF probe.isAnomaly THEN "high" ELSE "normal"
                  /\ probe.firstAnomaly = FirstExceeding(v - delta, k)
            /\ v < -delta =>
                  /\ probe.cumsum.negative = -(k * (Abs(v) - delta))
                  /\ probe.cumsum.positive = 0
                  /\ probe.isAnomaly <=> probe.cumsum.negative < -threshold
                  /\ probe.type = IF probe.isAnomaly THEN "low" ELSE "normal"
                  /\ probe.firstAnomaly = FirstExceeding(Abs(v) - delta, k)

\* Three calls with v = 3: positive was exactly 5 after the second, which is
\* no anomaly, and the third is the first anomaly.
C14_Witness ==
    /\ probe.fn = "detectAnomaly"
    /\ probe.constant
    /\ probe.first = Fx(3, 1)
    /\ probe.k = 3
    /\ probe.firstAnomaly = 3
    /\ probe.type = "high"

\* C15: a call whose lambda = innovation^2 / innovationCov is at most 3.84
\* returns processNoise = 0.01 whatever the previous value was, and a call
\* from the nominal level 0.01 whose lambda exceeds 3.84 returns 0.025; so
\* one call above the threshold followed by one at or below it goes
\* 0.01 -> 0.025 -> 0.01.
C15_RegimeSwitch ==
    (probe.fn = "kalmanFilter" /\ probe.k >= 1) =>
        /\ probe.steps.lambda <= chiSquareThreshold =>
              probe.state.processNoise = Fx(1, 100)
        /\ (probe.steps.lambda > chiSquareThreshold
              /\ probe.prior.processNoise = Fx(1, 100)) =>
              probe.state.processNoise = Fx(25, 1000)

\* The second of two calls from the initial state: the first raised the
\* level to 0.025 and the second, with lambda <= 3.84, put it back to 0.01.
C15_Witness ==
    /\ probe.fn = "kalmanFilter"
    /\ probe.k = 2
    /\ probe.prior.processNoise = Fx(25, 1000)
    /\ probe.steps.lambda <= chiSquareThreshold
    /\ probe.state.processNoise = Fx(1, 100)

\* The bands of the six configured keys as the specification lists them:
\* <<optimalLow, optimalHigh, warningLow, warningHigh>>.
bands ==
    [moisture   |-> <<Fx(40, 1), Fx(50, 1), Fx(35, 1), Fx(55, 1)>>,
     ph         |-> <<Fx(65, 10), Fx(70, 10), Fx(60, 10), Fx(75, 10)>>,
     ec         |-> <<Fx(10, 10), Fx(15, 10), Fx(8, 10), Fx(18, 10)>>,
     nitrogen   |-> <<Fx(30, 1), Fx(40, 1), Fx(25, 1), Fx(45, 1)>>,
     phosphorus |-> <<Fx(15, 1), Fx(25, 1), Fx(10, 1), Fx(30, 1)>>,
     potassium  |-> <<Fx(20, 1), Fx(30, 1), Fx(15, 1), Fx(35, 1)>>]

classify(value, key) ==
    IF key \notin DOMAIN bands THEN "unknown"
    ELSE IF bands[key][1] <= value /\ value <= bands[key][2] THEN "optimal"
    ELSE IF bands[key][3] <= value /\ value <= bands[key][4] THEN "warning"
    ELSE "critical"

\* The part of C16 about the six configured keys: optimal inside the optimal
\* band, else warning inside the warning band, else critical, bounds
\* inclusive; moisture 40 is optimal, 36 warning, 10 critical.
ConfiguredKeysClassified ==
    /\ (probe.fn = "getParameterStatus" /\ probe.calls = 1
          /\ probe.parameter \in DOMAIN bands) =>
            probe.status = classify(probe.value, probe.parameter)
    /\ getParameterStatus(Fx(40, 1), "moisture") = "optimal"
    /\ getParameterStatus(Fx(36, 1), "moisture") = "warning"
    /\ getParameterStatus(Fx(10, 1), "moisture") = "critical"

\* C16: getParameterStatus returns optimal when the value lies in the key's
\* optimal band, otherwise warning when it lies in the key's warning band,
\* otherwise critical, bounds inclusive, for each of the six configured
\* keys; for every key that is not configured it returns unknown for every
\* value.
C16_Classify ==
    (probe.fn = "getParameterStatus" /\ probe.calls = 1) =>
        probe.status = classify(probe.value, probe.parameter)

\* x, rounded to the nearest multiple of 1/d, is n/d.
Approx(x, n, d) == 2 * Abs(x * d - n * Scale) <= Scale

\* The first call under KalmanSpec with measurement 70: one step from the
\* initial state, its innovation fed to the fresh sums.
StepFromInitialState ==
    /\ probe.fn = "kalmanFilter"
    /\ probe.k = 1
    /\ probe.prior = InitKalman
    /\ probe.measurement = Fx(70, 1)

\* Everything C17 states except the value of errorCovariance.
StepValues ==
    /\ probe.steps.predictedErrorCov = Fx(101, 100)
    /\ probe.steps.innovation = Fx(25, 1)
    /\ probe.state.innovation = Fx(25, 1)
    /\ probe.steps.innovationCov = Fx(151, 100)
    /\ Approx(probe.steps.lambda, 4139, 10)
    /\ probe.steps.lambda > chiSquareThreshold
    /\ probe.state.processNoise = Fx(25, 1000)
    /\ Approx(probe.steps.kalmanGain, 669, 1000)
    /\ Approx(probe.state.estimate, 617, 10)
    /\ probe.state.measurementNoise = Fx(1, 2)
    /\ probe.cumsum.positive = Fx(245, 10)
    /\ probe.cumsum.positive > threshold
    /\ probe.isAnomaly
    /\ probe.type = "high"

\* C17: one Kalman step from the initial state {45, 1, 0.01, 0.5} with
\* measurement 70 yields predictedErrorCov 1.01, innovation 25,
\* innovationCov 1.51, lambda about 413.9 (> 3.84) hence processNoise 0.025,
\* kalmanGain about 0.669, estimate about 61.7 and errorCovariance about
\* 0.335, with measurementNoise unchanged at 0.5; that innovation fed to the
\* fresh sums gives positive = 24.5 > 5, an anomaly with direction high.
C17_StepFrom45To70 ==
    StepFromInitialState =>
        /\ StepValues
        /\ Approx(probe.state.errorCovariance, 335, 1000)

\* C17 with the errorCovariance the code returns,
\* (1 - 1.01 / 1.51) * 1.01 = 0.33444, about 0.334.
C17_StepFrom45To70_Cov334 ==
    StepFromInitialState =>
        /\ StepValues
        /\ probe.state.errorCovariance = probe.steps.newErrorCov
        /\ Approx(probe.state.errorCovariance, 334, 1000)
        /\ Approx(probe.state.errorCovariance, 3344, 10000)

C17_Witness ==
    /\ StepFromInitialState
    /\ probe.isAnomaly
    /\ probe.state.estimate > Fx(61, 1)

\* C18: on every tick the direction is high whenever the updated positive
\* sum exceeds 5, also when the updated negative sum is below -5 as well;
\* low only when the negative sum is below -5 and the positive sum is at
\* most 5; normal otherwise.  The tick is anomalous exactly when the
\* direction is not normal.  The sums are committed as updated, not cleared,
\* when the verdict fires, and an anomalous tick raises exactly one alert,
\* whose severity and message follow that priority.
C18_VerdictPriority ==
    [][TickStep =>
          LET innovation == kalmanState'.innovation
              sPlus == Max(0, cumsum.positive + innovation - delta)
              sMinus == Min(0, cumsum.negative + innovation + delta)
              direction == IF sPlus > threshold THEN "high"
                           ELSE IF sMinus < -threshold THEN "low"
                           ELSE "normal"
          IN  /\ cumsum' = [positive |-> sPlus, negative |-> sMinus]
              /\ IF direction = "normal"
                 THEN alerts' = alerts
                 ELSE /\ Len(alerts') = Min(alertCapacity, Len(alerts) + 1)
                      /\ Tail(alerts') = SliceFirst(alerts, alertCapacity - 1)
                      /\ Head(alerts').timestamp = clock'
                      /\ Head(alerts').type =
                            (IF direction = "high" THEN "warning" ELSE "critical")
                      /\ Head(alerts').message =
                            (IF direction = "high"
                             THEN "High moisture detected - Check irrigation system"
                             ELSE "Low moisture detected - Consider irrigation")]_vars

\* The tick just run left both sums beyond the threshold, and its alert is
\* the one for direction high; the sums of the anomalous tick before it were
\* carried over.
C18_Witness ==
    /\ cumsum.positive > threshold
    /\ cumsum.negative < -threshold
    /\ Len(alerts) > 1
    /\ Head(alerts).id = clock
    /\ Head(alerts).type = "warning"
    /\ Head(alerts).message = "High moisture detected - Check irrigation system"

\* C19: clear-alerts can be invoked in every state; it empties the alert
\* list and changes nothing else: the history, the filter state, the sums,
\* totalReadings, anomaliesDetected, dataAccuracy and the running state
\* (with the live interval) are as they were.
C19_ClearAlertsFrame ==
    /\ [](ENABLED clearAlerts)
    /\ [][clearAlerts =>
             /\ alerts' = <<>>
             /\ sensorData' = sensorData
             /\ currentValues' = currentValues
             /\ kalmanState' = kalmanState
             /\ cumsum' = cumsum
             /\ systemStats' = systemStats
             /\ isRunning' = isRunning
             /\ intervals' = intervals]_vars

\* Alerts were raised and then cleared while monitoring was running: the
\* count of anomalies and the history are still there.
C19_Witness ==
    /\ alerts = <<>>
    /\ systemStats.anomaliesDetected > 1
    /\ isRunning
    /\ intervals # {}
    /\ Len(sensorData) = systemStats.totalReadings
    /\ cumsum # InitCumsum

\* C20: in every reachable state, under any sequence of tick, start, stop,
\* reset and clear-alerts, the history length is min(25, totalReadings),
\* anomaliesDetected <= totalReadings, and the alert list is no longer than
\* min(8, anomaliesDetected).
C20_Bookkeeping ==
    /\ Len(sensorData) = Min(historyCapacity, systemStats.totalReadings)
    /\ systemStats.anomaliesDetected <= systemStats.totalReadings
    /\ Len(alerts) <= Min(alertCapacity, systemStats.anomaliesDetected)

\* Both capacities have been exceeded, and the alerts were cleared and a few
\* raised again since: each of the three relations is strict or at its cap.
C20_Witness ==
    /\ systemStats.totalReadings > historyCapacity
    /\ Len(sensorData) = historyCapacity
    /\ systemStats.anomaliesDetected > alertCapacity
    /\ systemStats.anomaliesDetected < systemStats.totalReadings
    /\ alerts # <<>>
    /\ Len(alerts) < alertCapacity

=============================================================================
